---- MODULE Spec2Model ----
(***************************************************************************)
(* The database tool server of retail-ops (src/src/mcp_server_db.py): a    *)
(* line-delimited JSON-RPC loop over stdin/stdout, the request dispatcher  *)
(* handle_request, the six tool handlers and the retrying connection       *)
(* provider get_connection.                                                *)
(*                                                                         *)
(* Python values are modelled as tagged records: a dict is                 *)
(* [type |-> "object", members |-> r] with r a record whose DOMAIN is the  *)
(* set of keys present, None is [type |-> "null"], and so on, so that      *)
(* dict.get, a missing key and a value of the wrong type are all things    *)
(* the model can tell apart.                                               *)
(***************************************************************************)
EXTENDS Integers, Sequences, FiniteSets, TLC

VARIABLES
    pc,        \* where main() is: "loop" (about to readline), "stopped"
    exit,      \* how the loop ended: "" (running), "eof", "fatal"
    stdout,    \* the lines written to standard output, in order
    origin,    \* history: for each line of stdout, the number of the input line it answers
    nread,     \* number of input lines readline() has returned so far
    line,      \* the input line handled last (None before the first)
    emitted,   \* number of responses sent for the input line handled last
    engine,    \* number of times handle_request was entered for the line handled last
    effects,   \* what the handler run for the line handled last did
    store,     \* the committed contents of the database file
    token,     \* os.environ.get("SLACK_BOT_TOKEN")
    gc,        \* a call of get_connection taken step by step
    repertoire, \* the kind of lines the peer of this session sends
    side,      \* the side channels: lines written to stderr and to the debug log
    seed       \* a run of seed_deposits taken step by step

vars == <<pc, exit, stdout, origin, nread, line, emitted, engine, effects, store, token, gc,
          repertoire, side, seed>>

----------------------------------------------------------------------------
(* Bounds *)

MaxLines == 2

----------------------------------------------------------------------------
(* Python / JSON values *)

Empty == [k \in {} |-> 0]

None == [type |-> "null"]
JNum(n) == [type |-> "number", n |-> n]
JStr(s) == [type |-> "string", s |-> s]
JArr == [type |-> "array"]
JTrue == [type |-> "boolean"]
JObj(m) == [type |-> "object", members |-> m]

IsDict(v) == v.type = "object"

\* dict.get(key, default)
Get(d, key, default) ==
    IF key \in DOMAIN d.members THEN d.members[key] ELSE default

\* str(v) inside an f-string
PyStr(v) ==
    CASE v.type = "string" -> v.s
      [] v.type = "null" -> "None"
      [] v.type = "array" -> "[]"
      [] v.type = "number" -> ToString(v.n)
      [] OTHER -> "{...}"

\* Exceptions: the class that decides which except clause catches it, and str(e)
Exc(cls, msg) == [cls |-> cls, msg |-> msg]
NoExc == Exc("", "")

----------------------------------------------------------------------------
(* get_connection: open-and-probe with retry *)

Retries == 3
DelayMs == 500

\* What one attempt meets: connect and probe succeed, connect raises, or the
\* probe raises on the handle connect returned.
AttemptOutcomes == {"ok", "cantopen", "locked"}

AttemptError(outcome) ==
    IF outcome = "cantopen"
    THEN Exc("sqlite3.OperationalError", "unable to open database file")
    ELSE Exc("sqlite3.OperationalError", "database is locked")

\* The raise after the for loop
GcExhausted(g) ==
    [g EXCEPT !.pc = "raised",
              !.error = Exc("sqlite3.Error",
                  "Failed to connect after " \o ToString(g.retries)
                  \o " attempts: " \o (IF g.last_error = NoExc THEN "None" ELSE g.last_error.msg))]

\* Entry of get_connection(retries, delay): last_error = None, then the for loop
GcEnter(retries, delay) ==
    LET g == [pc |-> "try", retries |-> retries, delay |-> delay, attempt |-> 0,
              tried |-> 0, last_error |-> NoExc, sleeps |-> <<>>, opened |-> 0,
              unclosed |-> 0, error |-> NoExc]
    IN IF retries > 0 THEN g ELSE GcExhausted(g)

\* A backoff that doubles: delay, 2 * delay, 4 * delay
GcBackoffDoubling(g) ==
    IF g.attempt < g.retries - 1
    THEN Append(g.sleeps, g.delay * 2 ^ g.attempt)
    ELSE g.sleeps

\* The sleep of the except clause
GcBackoff(g) ==
    IF g.attempt < g.retries - 1
    THEN Append(g.sleeps, g.delay * (g.attempt + 1))
    ELSE g.sleeps

\* A for loop that runs one iteration too many
GcAttemptOneTooMany(g, outcome) ==
    IF outcome = "ok"
    THEN [g EXCEPT !.pc = "returned", !.tried = @ + 1, !.opened = @ + 1,
                   !.unclosed = @ + 1]
    ELSE LET h == [g EXCEPT !.tried = @ + 1,
                            !.last_error = AttemptError(outcome),
                            !.sleeps = GcBackoff(g),
                            !.opened = IF outcome = "locked" THEN @ + 1 ELSE @,
                            !.unclosed = IF outcome = "locked" THEN @ + 1 ELSE @,
                            !.attempt = @ + 1]
         IN IF h.attempt <= h.retries THEN h ELSE GcExhausted(h)

\* One iteration of the for loop, meeting `outcome`
GcAttempt(g, outcome) ==
    IF outcome = "ok"
    THEN [g EXCEPT !.pc = "returned", !.tried = @ + 1, !.opened = @ + 1,
                   !.unclosed = @ + 1]
    ELSE LET h == [g EXCEPT !.tried = @ + 1,
                            !.last_error = AttemptError(outcome),
                            !.sleeps = GcBackoff(g),
                            !.opened = IF outcome = "locked" THEN @ + 1 ELSE @,
                            !.unclosed = IF outcome = "locked" THEN @ + 1 ELSE @,
                            !.attempt = @ + 1]
         IN IF h.attempt < h.retries THEN h ELSE GcExhausted(h)

\* get_connection run to its end against a sequence of attempt outcomes
RECURSIVE GcRun(_, _)
GcRun(g, outs) ==
    IF g.pc # "try" \/ outs = <<>> THEN g
    ELSE GcRun(GcAttempt(g, Head(outs)), Tail(outs))

\* get_connection() as the handlers call it, with the defaults
get_connection(outs) == GcRun(GcEnter(Retries, DelayMs), outs)

----------------------------------------------------------------------------
(* The store and the statements sent to it *)

MaxKey == 1
Keys == 1..MaxKey

\* The committed contents: the primary keys of the rows of table deposits
Stores == [deposits : SUBSET Keys]

SelectAll == "SELECT id FROM deposits"
SelectNone == "SELECT id FROM deposits WHERE 0"
InsertRow(k) == "INSERT INTO deposits (id) VALUES (" \o ToString(k) \o ")"
\* Two rows with the same key: the first is inserted, the second violates the
\* primary key, and OR FAIL keeps what the statement did before it failed
InsertTwice(k) ==
    "INSERT OR FAIL INTO deposits (id) VALUES (" \o ToString(k) \o "), (" \o ToString(k) \o ")"
\* The same two statements behind a WITH clause. sqlite3 opens its implicit
\* transaction only before a statement that begins with INSERT, UPDATE,
\* DELETE or REPLACE; any other statement runs in autocommit mode, where what
\* it did is committed when it ends
InsertWith(k) ==
    "WITH v(x) AS (VALUES (" \o ToString(k) \o ")) INSERT INTO deposits (id) SELECT x FROM v"
InsertWithTwice(k) ==
    "WITH v(x) AS (VALUES (" \o ToString(k) \o "), (" \o ToString(k)
    \o ")) INSERT OR FAIL INTO deposits (id) SELECT x FROM v"
CreateTable == "CREATE TABLE IF NOT EXISTS deposits (id INTEGER PRIMARY KEY)"
BadSql == "SELEC"

Queries ==
    {SelectAll, SelectNone, CreateTable, BadSql}
    \cup {InsertRow(k) : k \in Keys} \cup {InsertTwice(k) : k \in Keys}
    \cup {InsertWith(k) : k \in Keys} \cup {InsertWithTwice(k) : k \in Keys}

\* The keys of S in ascending order, by halves of their range
RECURSIVE Ascending(_)
Ascending(S) ==
    IF S = {} THEN <<>>
    ELSE LET lo == CHOOSE x \in S : \A y \in S : x <= y
             hi == CHOOSE x \in S : \A y \in S : y <= x
             mid == (lo + hi) \div 2
         IN IF lo = hi THEN <<lo>>
            ELSE Ascending({x \in S : x <= mid}) \o Ascending({x \in S : x > mid})

\* cursor.execute(query): the exception it raises if any,
\* cursor.description, the rows, cursor.rowcount, the contents as the
\* connection now sees them (db), and the contents that stay if the connection
\* is rolled back or closed without a commit (durable): what was committed
\* before, or for a statement run in autocommit mode what it left behind
Execute(db, query) ==
    LET ok(cols, rows, n, after) ==
            [exc |-> NoExc, columns |-> cols, rows |-> rows, rowcount |-> n, db |-> after,
             durable |-> db]
        fail(e) ==
            [exc |-> e, columns |-> <<>>, rows |-> <<>>, rowcount |-> -1, db |-> db,
             durable |-> db]
        with(k) == [db EXCEPT !.deposits = @ \cup {k}]
        unique == Exc("sqlite3.IntegrityError", "UNIQUE constraint failed: deposits.id")
    IN CASE query = SelectAll ->
                ok(<<"id">>, [i \in 1..Cardinality(db.deposits) |-> <<Ascending(db.deposits)[i]>>],
                   -1, db)
         [] query = SelectNone -> ok(<<"id">>, <<>>, -1, db)
         [] \E k \in Keys : query = InsertRow(k) ->
                LET k == CHOOSE j \in Keys : query = InsertRow(j)
                IN IF k \in db.deposits
                   THEN fail(unique)
                   ELSE ok(<<>>, <<>>, 1, [db EXCEPT !.deposits = @ \cup {k}])
         [] \E k \in Keys : query = InsertTwice(k) ->
                LET k == CHOOSE j \in Keys : query = InsertTwice(j)
                IN [fail(unique) EXCEPT !.db = [db EXCEPT !.deposits = @ \cup {k}]]
         [] \E k \in Keys : query = InsertWith(k) ->
                LET k == CHOOSE j \in Keys : query = InsertWith(j)
                IN IF k \in db.deposits
                   THEN fail(unique)
                   ELSE [ok(<<>>, <<>>, 1, with(k)) EXCEPT !.durable = with(k)]
         [] \E k \in Keys : query = InsertWithTwice(k) ->
                LET k == CHOOSE j \in Keys : query = InsertWithTwice(j)
                IN [fail(unique) EXCEPT !.db = with(k), !.durable = with(k)]
         [] query = CreateTable -> ok(<<>>, <<>>, -1, db)
         [] OTHER ->
                fail(Exc("sqlite3.OperationalError", "near \"" \o query \o "\": syntax error"))

\* A PRAGMA that raises for a table that does not exist
TableInfoNoSuchTable(table_name) ==
    CASE table_name = "deposits" ->
            [exc |-> NoExc, rows |-> <<[name |-> "id", type |-> "INTEGER", notnull |-> 1, pk |-> 1]>>]
      [] table_name = "a b" ->
            [exc |-> Exc("sqlite3.OperationalError", "near \"b\": syntax error"), rows |-> <<>>]
      [] OTHER ->
            [exc |-> Exc("sqlite3.OperationalError", "no such table: " \o table_name),
             rows |-> <<>>]

\* PRAGMA table_info(table_name): one row per column, none for an unknown
\* table, and a syntax error for text that is no single name
TableInfo(table_name) ==
    CASE table_name = "deposits" ->
            [exc |-> NoExc, rows |-> <<[name |-> "id", type |-> "INTEGER", notnull |-> 1, pk |-> 1]>>]
      [] table_name = "a b" ->
            [exc |-> Exc("sqlite3.OperationalError", "near \"b\": syntax error"), rows |-> <<>>]
      [] OTHER -> [exc |-> NoExc, rows |-> <<>>]

TableNames == {"deposits", "nosuch", "a b"}

----------------------------------------------------------------------------
(* Tool handlers.  Each yields the exception that escapes it (NoExc if it  *)
(* returns), the value returned, the committed store afterwards and what   *)
(* it did on the way.                                                      *)

NoEffects == [handler |-> "", connects |-> 0, opened |-> 0, acquired |-> 0, closed |-> 0,
              statements |-> 0, commits |-> 0, rollbacks |-> 0, outbound |-> 0,
              upstream |-> <<>>, raised |-> NoExc, returned |-> <<>>,
              stderr |-> 0, debuglog |-> 0]

\* fx.raised keeps the exception that escaped the handler, fx.returned the
\* value it returned
Outcome(exc, value, db, fx) ==
    [exc |-> exc, value |-> value, db |-> db,
     fx |-> [fx EXCEPT !.raised = exc, !.returned = value]]

\* The effects of conn = get_connection() at the top of a store handler:
\* the handles it opened, and whether it returned one
Acquired(name, g) ==
    [NoEffects EXCEPT !.handler = name, !.connects = 1, !.opened = g.opened,
                      !.acquired = IF g.pc = "returned" THEN 1 ELSE 0]

list_tables(db, g) ==
    LET fx == Acquired("list_tables", g)
    IN IF g.pc = "raised" THEN Outcome(g.error, <<>>, db, fx)
       ELSE Outcome(NoExc, <<"deposits">>, db,
                    [fx EXCEPT !.statements = 1, !.closed = 1])

describe_table(table_name, db, g) ==
    LET fx == Acquired("describe_table", g)
        info == TableInfo(table_name)
    IN IF g.pc = "raised" THEN Outcome(g.error, <<>>, db, fx)
       ELSE IF info.exc # NoExc
            THEN Outcome(info.exc, <<>>, db, [fx EXCEPT !.statements = 1])
            ELSE Outcome(NoExc, info.rows, db, [fx EXCEPT !.statements = 1, !.closed = 1])

\* A read_query that raises when the statement yields no row
read_queryRaisingOnEmpty(query, db, g) ==
    LET fx == Acquired("read_query", g)
        r == Execute(db, query)
    IN IF g.pc = "raised" THEN Outcome(g.error, <<>>, db, fx)
       ELSE IF r.exc # NoExc
            THEN Outcome(r.exc, <<>>, r.durable, [fx EXCEPT !.statements = 1, !.closed = 1])
       ELSE IF r.rows = <<>>
            THEN Outcome(Exc("LookupError", "no rows"), <<>>, r.durable,
                         [fx EXCEPT !.statements = 1, !.closed = 1])
            ELSE Outcome(NoExc, [columns |-> r.columns, rows |-> r.rows], r.durable,
                         [fx EXCEPT !.statements = 1, !.closed = 1])

read_query(query, db, g) ==
    LET fx == Acquired("read_query", g)
        r == Execute(db, query)
    IN IF g.pc = "raised" THEN Outcome(g.error, <<>>, db, fx)
       ELSE IF r.exc # NoExc
            THEN Outcome(r.exc, <<>>, r.durable, [fx EXCEPT !.statements = 1, !.closed = 1])
            ELSE Outcome(NoExc, [columns |-> r.columns, rows |-> r.rows], r.durable,
                         [fx EXCEPT !.statements = 1, !.closed = 1])

write_query(query, db, g) ==
    LET fx == Acquired("write_query", g)
        r == Execute(db, query)
    IN IF g.pc = "raised" THEN Outcome(g.error, <<>>, db, fx)
       ELSE IF r.exc # NoExc
            THEN Outcome(r.exc, <<>>, r.durable,
                         [fx EXCEPT !.statements = 1, !.rollbacks = 1, !.closed = 1])
            ELSE Outcome(NoExc, [affected_rows |-> r.rowcount], r.db,
                         [fx EXCEPT !.statements = 1, !.commits = 1, !.closed = 1])

\* What urlopen(...) and the reading of the reply come to
HttpOutcomes == {"accepted", "rejected", "urlerror", "timeout", "badjson"}

\* The thread as the platform returns it: text with its leading glyph, and
\* whether the message carries a bot_id
Upstream ==
    << [glyph |-> "", text |-> "approve it", bot |-> FALSE],
       [glyph |-> "magnifier", text |-> "Analyzing...", bot |-> TRUE],
       [glyph |-> "", text |-> "Report sent", bot |-> TRUE] >>

StatusGlyphs == {"magnifier", "wrench", "brain", "cycle", "check Complete"}

\* A loop that keeps the status messages
ThreadMessagesUnfiltered(msgs) ==
    [i \in 1..Len(msgs) |-> [role |-> IF msgs[i].bot THEN "assistant" ELSE "user",
                              text |-> msgs[i].glyph \o msgs[i].text]]

RECURSIVE ThreadMessages(_)
ThreadMessages(msgs) ==
    IF msgs = <<>> THEN <<>>
    ELSE LET msg == Head(msgs)
         IN IF msg.glyph \in StatusGlyphs
            THEN ThreadMessages(Tail(msgs))
            ELSE <<[role |-> IF msg.bot THEN "assistant" ELSE "user",
                    text |-> msg.glyph \o msg.text]>> \o ThreadMessages(Tail(msgs))

\* The exception an outcome of the outbound call raises out of urlopen/read/loads
HttpError(http) ==
    CASE http = "urlerror" -> Exc("URLError", "<urlopen error [Errno 111] Connection refused>")
      [] http = "timeout" -> Exc("TimeoutError", "The read operation timed out")
      [] http = "badjson" -> Exc("JSONDecodeError", "Expecting value: line 1 column 1 (char 0)")
      [] OTHER -> NoExc

NotConfigured == [success |-> FALSE, error |-> "SLACK_BOT_TOKEN not configured"]

\* A test that takes only an unset variable for missing
TokenUnset(tok) == tok = None

\* `not slack_token`: the variable is unset (None) or empty
TokenMissing(tok) == tok = None \/ tok = JStr("")

\* The appends to the debug log are taken to succeed. `thread` is the message
\* list of the reply when the platform accepts the call.
\* fx.debuglog counts the lines appended to the debug log: one on entry, one
\* more for a missing token, for the reply and its message count, for a URLError.
read_thread(channel, thread_ts, limit, db, tok, http, thread) ==
    LET fx == [NoEffects EXCEPT !.handler = "read_thread", !.debuglog = 1]
        sent == [fx EXCEPT !.outbound = 1]
        e == HttpError(http)
    IN IF TokenMissing(tok) THEN Outcome(NoExc, NotConfigured, db, [fx EXCEPT !.debuglog = 2])
       ELSE IF e.cls = "URLError"
            THEN Outcome(NoExc, [success |-> FALSE, error |-> e.msg], db,
                         [sent EXCEPT !.debuglog = 2])
       ELSE IF e # NoExc THEN Outcome(e, <<>>, db, sent)
       ELSE IF http = "accepted"
            THEN Outcome(NoExc, [success |-> TRUE, messages |-> ThreadMessages(thread)], db,
                         [sent EXCEPT !.upstream = thread, !.debuglog = 3])
            ELSE Outcome(NoExc, [success |-> FALSE, error |-> "channel_not_found"], db,
                         [sent EXCEPT !.debuglog = 2])

send_slack_message(channel, message, db, tok, http) ==
    LET fx == [NoEffects EXCEPT !.handler = "send_slack_message"]
        sent == [fx EXCEPT !.outbound = 1]
        e == HttpError(http)
    IN IF TokenMissing(tok) THEN Outcome(NoExc, NotConfigured, db, fx)
       ELSE IF e.cls = "URLError"
            THEN Outcome(NoExc, [success |-> FALSE, error |-> e.msg], db, sent)
       ELSE IF e # NoExc THEN Outcome(e, <<>>, db, sent)
       ELSE IF http = "accepted"
            THEN Outcome(NoExc, [success |-> TRUE, channel |-> channel], db, sent)
            ELSE Outcome(NoExc, [success |-> FALSE, error |-> "not_in_channel"], db, sent)

----------------------------------------------------------------------------
(* handle_request *)

ParseError == -32700
NotFound == -32601
InternalError == -32000
DisplayLimit == 100

ResultResponse(request_id, result) ==
    [jsonrpc |-> "2.0", id |-> request_id, result |-> result]

\* An error envelope that also carries a result member
ErrorResponseWithResult(request_id, code, message) ==
    [jsonrpc |-> "2.0", id |-> request_id, result |-> None,
     error |-> [code |-> code, message |-> message]]

ErrorResponse(request_id, code, message) ==
    [jsonrpc |-> "2.0", id |-> request_id, error |-> [code |-> code, message |-> message]]

TypeName(v) ==
    CASE v.type = "null" -> "NoneType"
      [] v.type = "array" -> "list"
      [] v.type = "number" -> "int"
      [] v.type = "string" -> "str"
      [] v.type = "boolean" -> "bool"
      [] OTHER -> "dict"

\* v.get(...) on a value that is no dict
NoGet(v) == Exc("AttributeError", "'" \o TypeName(v) \o "' object has no attribute 'get'")

\* d[key]: the exception raised, if any
SubscriptError(d, key) ==
    IF ~IsDict(d)
    THEN Exc("TypeError", TypeName(d) \o " indices must be integers or slices, not str")
    ELSE IF key \notin DOMAIN d.members
         THEN Exc("KeyError", "'" \o key \o "'")
         ELSE NoExc

\* The first exception among the subscripts d[k] for k in keys, in order
RECURSIVE FirstMissing(_, _)
FirstMissing(d, keys) ==
    IF keys = <<>> THEN NoExc
    ELSE IF SubscriptError(d, Head(keys)) # NoExc THEN SubscriptError(d, Head(keys))
         ELSE FirstMissing(d, Tail(keys))

\* sep.join(parts), by halves
RECURSIVE Join(_, _)
Join(parts, sep) ==
    IF parts = <<>> THEN ""
    ELSE IF Len(parts) = 1 THEN parts[1]
         ELSE LET half == Len(parts) \div 2
              IN Join(SubSeq(parts, 1, half), sep) \o sep
                 \o Join(SubSeq(parts, half + 1, Len(parts)), sep)

\* str(row) of a one-column row
RowStr(row) == "(" \o ToString(row[1]) \o ",)"

\* A presentation that announces omitted rows from the limit on
ReadQueryTextTrailerAtLimit(result) ==
    IF result.rows # <<>>
    THEN LET n == Len(result.rows)
             shown == IF n < DisplayLimit THEN n ELSE DisplayLimit
         IN "Columns: " \o Join(result.columns, ", ") \o "\n\n"
            \o "Results (" \o ToString(n) \o " rows):\n"
            \o Join([i \in 1..shown |-> RowStr(result.rows[i]) \o "\n"], "")
            \o (IF n >= DisplayLimit
                THEN "\n... and " \o ToString(n - DisplayLimit) \o " more rows"
                ELSE "")
    ELSE "Query returned no results."

ReadQueryText(result) ==
    IF result.rows # <<>>
    THEN LET n == Len(result.rows)
             shown == IF n < DisplayLimit THEN n ELSE DisplayLimit
         IN "Columns: " \o Join(result.columns, ", ") \o "\n\n"
            \o "Results (" \o ToString(n) \o " rows):\n"
            \o Join([i \in 1..shown |-> RowStr(result.rows[i]) \o "\n"], "")
            \o (IF n > DisplayLimit
                THEN "\n... and " \o ToString(n - DisplayLimit) \o " more rows"
                ELSE "")
    ELSE "Query returned no results."

ReadThreadText(result) ==
    IF result.success
    THEN "Thread conversation:\n"
         \o Join([i \in 1..Len(result.messages) |->
                    "[" \o (IF result.messages[i].role = "assistant" THEN "ASSISTANT" ELSE "USER")
                    \o "]: " \o result.messages[i].text \o "\n"], "")
    ELSE "Failed to read thread: " \o result.error

\* A chain on tool_name that lacks the last branch
ToolNamesWithoutSend == {"list_tables", "describe_table", "read_query", "write_query",
                         "read_thread"}

ToolNames == {"list_tables", "describe_table", "read_query", "write_query",
              "read_thread", "send_slack_message"}

\* The keys each branch of tools/call subscripts before calling its handler
Subscripted(tool) ==
    CASE tool = "describe_table" -> <<"table_name">>
      [] tool = "read_query" -> <<"query">>
      [] tool = "write_query" -> <<"query">>
      [] tool = "read_thread" -> <<"channel", "thread_ts">>
      [] tool = "send_slack_message" -> <<"channel", "message">>
      [] OTHER -> <<>>

\* A handler's outcome r with the content text t built from its value
WithText(r, t) == [r EXCEPT !.value = IF r.exc = NoExc THEN t ELSE ""]

ListTablesText(r) ==
    WithText(r, "Tables in database:\n"
                \o Join([i \in 1..Len(r.value) |-> "- " \o r.value[i]], "\n"))

DescribeTableText(table_name, r) ==
    WithText(r, "Schema for " \o table_name \o ":\n"
                \o Join([i \in 1..Len(r.value) |->
                           "- " \o r.value[i].name \o " (" \o r.value[i].type \o ")"], "\n"))

WriteQueryText(r) ==
    WithText(r, "Query executed. Affected rows: " \o ToString(r.value.affected_rows))

SendMessageText(r) ==
    WithText(r, IF r.value.success
                THEN "Message sent to " \o r.value.channel
                ELSE "Failed to send message: " \o r.value.error)

OfReadQuery(r) == WithText(r, ReadQueryText(r.value))
\* The read_thread branch writes to stderr before the call and after its return
OfReadThread(r) ==
    WithText([r EXCEPT !.fx.stderr = IF r.exc = NoExc THEN 2 ELSE 1], ReadThreadText(r.value))

\* The string value of argument k
Arg(tool_args, k) == tool_args.members[k].s

\* A chain whose branches connect to the store and the platform before
\* they look at the arguments
CallToolConnectingFirst(tool, tool_args, db, tok, env) ==
    Outcome(IF FirstMissing(tool_args, Subscripted(tool)) # NoExc
            THEN FirstMissing(tool_args, Subscripted(tool))
            ELSE Exc("RuntimeError", "not reached"),
            "", db,
            [NoEffects EXCEPT !.connects = 1, !.opened = 1, !.outbound = 1])

\* A branch of the tools/call chain for a catalogued tool: the handler's
\* outcome with the content text as its value. env holds what the call meets
\* outside the process: env.conn, the attempt outcomes of get_connection,
\* env.http, the outcome of the outbound call, and env.thread, the messages of
\* the thread on the platform.
CallTool(tool, tool_args, db, tok, env) ==
    IF tool = "read_thread" /\ ~IsDict(tool_args)
    THEN Outcome(NoGet(tool_args), "", db, NoEffects)
    ELSE IF FirstMissing(tool_args, Subscripted(tool)) # NoExc
    THEN Outcome(FirstMissing(tool_args, Subscripted(tool)), "", db,
                 [NoEffects EXCEPT !.stderr = IF tool = "read_thread" THEN 1 ELSE 0])
    ELSE CASE tool = "list_tables" ->
                ListTablesText(list_tables(db, get_connection(env.conn)))
           [] tool = "describe_table" ->
                DescribeTableText(Arg(tool_args, "table_name"),
                    describe_table(Arg(tool_args, "table_name"), db, get_connection(env.conn)))
           [] tool = "read_query" ->
                OfReadQuery(read_query(Arg(tool_args, "query"), db, get_connection(env.conn)))
           [] tool = "write_query" ->
                WriteQueryText(write_query(Arg(tool_args, "query"), db, get_connection(env.conn)))
           [] tool = "read_thread" ->
                OfReadThread(read_thread(Arg(tool_args, "channel"), Arg(tool_args, "thread_ts"),
                                         Get(tool_args, "limit", JNum(10)), db, tok, env.http,
                                         env.thread))
           [] OTHER ->
                SendMessageText(send_slack_message(Arg(tool_args, "channel"),
                                                   Arg(tool_args, "message"), db, tok, env.http))

\* A catalogue that lacks the last descriptor
ToolListWithoutSend ==
    << [name |-> "list_tables", required |-> <<>>],
       [name |-> "describe_table", required |-> <<"table_name">>],
       [name |-> "read_query", required |-> <<"query">>],
       [name |-> "write_query", required |-> <<"query">>],
       [name |-> "read_thread", required |-> <<"channel", "thread_ts">>] >>

\* The descriptors tools/list answers with: name and required parameters
ToolList ==
    << [name |-> "list_tables", required |-> <<>>],
       [name |-> "describe_table", required |-> <<"table_name">>],
       [name |-> "read_query", required |-> <<"query">>],
       [name |-> "write_query", required |-> <<"query">>],
       [name |-> "read_thread", required |-> <<"channel", "thread_ts">>],
       [name |-> "send_slack_message", required |-> <<"channel", "message">> ] >>

InitializeResult ==
    [protocolVersion |-> "2024-11-05", capabilities |-> [tools |-> Empty],
     serverInfo |-> [name |-> "sqlite-mcp", version |-> "1.0.0"]]

\* What a call of handle_request comes to: the exception escaping it (NoExc if
\* it returns), the value returned (None or a response), the committed store
\* and the effects
Handled(exc, response, db, fx) == [exc |-> exc, response |-> response, db |-> db, fx |-> fx]

\* An except clause that words the error as main's does, without the id
EnvelopeAsMain(request_id, r) ==
    IF r.exc # NoExc
    THEN Handled(NoExc, ErrorResponse(None, InternalError, "Internal error: " \o r.exc.msg),
                 r.db, r.fx)
    ELSE Handled(NoExc,
                 ResultResponse(request_id, [content |-> <<[type |-> "text", text |-> r.value]>>]),
                 r.db, r.fx)

\* The end of the tools/call branch for a catalogued tool whose branch came
\* to r: the result envelope, or the except clause's error envelope
Envelope(request_id, r) ==
    IF r.exc # NoExc
    THEN Handled(NoExc, ErrorResponse(request_id, InternalError, r.exc.msg), r.db, r.fx)
    ELSE Handled(NoExc,
                 ResultResponse(request_id, [content |-> <<[type |-> "text", text |-> r.value]>>]),
                 r.db, r.fx)

\* An unknown tool reported through the generic except clause
UnknownToolAsInternalError(request_id, tool_name) ==
    [jsonrpc |-> "2.0", id |-> request_id,
     error |-> [code |-> InternalError, message |-> "Unknown tool: " \o PyStr(tool_name)]]

\* The final else of the chain on tool_name
UnknownTool(request_id, tool_name) ==
    ErrorResponse(request_id, NotFound, "Unknown tool: " \o PyStr(tool_name))

\* The if/elif chain on tool_name
Dispatch(request_id, tool_name, tool_args, db, tok, env) ==
    IF tool_name.type = "string" /\ tool_name.s \in ToolNames
    THEN Envelope(request_id, CallTool(tool_name.s, tool_args, db, tok, env))
    ELSE Handled(NoExc, UnknownTool(request_id, tool_name), db, NoEffects)

\* The tools/call branch, inside the try
ToolsCall(request_id, params, db, tok, env) ==
    IF ~IsDict(params)
    THEN Handled(NoExc, ErrorResponse(request_id, InternalError, NoGet(params).msg), db, NoEffects)
    ELSE Dispatch(request_id, Get(params, "name", None),
                  Get(params, "arguments", JObj(Empty)), db, tok, env)

\* A method-not-found envelope that drops the request's id
MethodNotFoundWithoutId(request_id, method) ==
    [jsonrpc |-> "2.0", id |-> None,
     error |-> [code |-> NotFound, message |-> "Method not found: " \o PyStr(method)]]

\* The final else of the chain on method
MethodNotFound(request_id, method) ==
    ErrorResponse(request_id, NotFound, "Method not found: " \o PyStr(method))

handle_request(request, db, tok, env) ==
    IF ~IsDict(request) THEN Handled(NoGet(request), None, db, NoEffects)
    ELSE LET method == Get(request, "method", None)
             params == Get(request, "params", JObj(Empty))
             request_id == Get(request, "id", None)
         IN CASE method = JStr("initialize") ->
                    Handled(NoExc, ResultResponse(request_id, InitializeResult), db, NoEffects)
              [] method = JStr("notifications/initialized") ->
                    Handled(NoExc, None, db, NoEffects)
              [] method = JStr("tools/list") ->
                    Handled(NoExc, ResultResponse(request_id, [tools |-> ToolList]), db, NoEffects)
              [] method = JStr("tools/call") ->
                    ToolsCall(request_id, params, db, tok, env)
              [] OTHER ->
                    Handled(NoExc, MethodNotFound(request_id, method), db, NoEffects)

----------------------------------------------------------------------------
(* Input lines *)

Undecodable == [kind |-> "undecodable"]   \* bytes that are not UTF-8
Blank == [kind |-> "blank"]               \* only whitespace before the newline
Garbage == [kind |-> "garbage"]           \* text that is not JSON
JsonLine(v) == [kind |-> "json", value |-> v]
NoLine == [kind |-> "none"]

\* A key left out of a dict under construction
Absent == [type |-> "absent"]
Dict(m) == JObj([k \in {j \in DOMAIN m : m[j] # Absent} |-> m[k]])

\* The peer numbers its requests: the n-th line carries id n, a string id, or none
IdValues(n) == {Absent, JNum(n), JStr("a")}

Request(method, id, params) == JsonLine(Dict([method |-> method, id |-> id, params |-> params]))
Call(id, name, arguments) ==
    Request(JStr("tools/call"), id, Dict([name |-> name, arguments |-> arguments]))

\* The lines a peer that only speaks the protocol sends as its n-th line
ProtocolLines(n) ==
    {Blank, Garbage, JsonLine(JNum(5)), JsonLine(JStr("x")), JsonLine(JArr), JsonLine(JTrue),
     JsonLine(None)}
    \cup {Request(m, i, Absent) :
            m \in {JStr("initialize"), JStr("notifications/initialized"), JStr("tools/list"),
                   JStr("resources/list"), Absent},
            i \in IdValues(n)}
    \cup {Request(JStr("tools/call"), i, p) :
            i \in IdValues(n),
            p \in {Absent, JArr, Dict(Empty), Dict([name |-> JStr("drop_table")])}}

\* The arguments a call of a store tool is given when they are complete
StoreArguments(tool) ==
    CASE tool = "describe_table" -> {Dict([table_name |-> JStr(t)]) : t \in TableNames}
      [] tool = "read_query" ->
            {Dict([query |-> JStr(q)]) :
                q \in {SelectAll, SelectNone, BadSql}
                      \cup {InsertRow(k) : k \in Keys} \cup {InsertWith(k) : k \in Keys}}
      [] tool = "write_query" ->
            {Dict([query |-> JStr(q)]) :
                q \in {SelectAll, CreateTable, BadSql} \cup {InsertRow(k) : k \in Keys}
                      \cup {InsertTwice(k) : k \in Keys}
                      \cup {InsertWithTwice(k) : k \in Keys}}
      [] OTHER -> {Absent}

\* The lines a peer working on the store sends as its n-th line
StoreLines(n) ==
    {Request(JStr("initialize"), JNum(n), Absent), Request(JStr("tools/list"), JNum(n), Absent),
     Call(Absent, JStr("list_tables"), Absent)}
    \cup UNION {{Call(JNum(n), JStr(t), a) : a \in StoreArguments(t)} :
                t \in {"list_tables", "describe_table", "read_query", "write_query"}}
    \cup {Call(JNum(n), JStr(t), Absent) : t \in {"describe_table", "read_query", "write_query"}}
    \cup {Call(JNum(n), JStr("read_query"), JArr)}

\* The lines a peer working on the messaging platform sends as its n-th line
MessagingLines(n) ==
    {Request(JStr("initialize"), JNum(n), Absent), Request(JStr("tools/list"), JNum(n), Absent)}
    \cup {Call(JNum(n), JStr("read_thread"), a) :
            a \in {Absent, JArr, Dict([channel |-> JStr("C1")]),
                   Dict([channel |-> JStr("C1"), thread_ts |-> JStr("17.1")])}}
    \cup {Call(JNum(n), JStr("send_slack_message"), a) :
            a \in {Absent, Dict([channel |-> JStr("C1")]),
                   Dict([channel |-> JStr("C1"), message |-> JStr("hi")])}}

Repertoires == {"protocol", "store", "messaging"}

Lines(rep, n) ==
    CASE rep = "protocol" -> ProtocolLines(n)
      [] rep = "store" -> StoreLines(n)
      [] OTHER -> MessagingLines(n)

\* The runs of get_connection a session's handlers meet: the database is there,
\* it is locked for one attempt, or every attempt fails the same way
ConnRuns ==
    {<<"ok">>, <<"locked", "ok">>}
    \cup {[i \in 1..Retries |-> o] : o \in AttemptOutcomes \ {"ok"}}

\* The tool a line calls ("" if none) and its arguments
CalledTool(l) ==
    LET v == IF l.kind = "json" THEN l.value ELSE None
        p == IF IsDict(v) THEN Get(v, "params", JObj(Empty)) ELSE None
        name == IF IsDict(p) /\ Get(v, "method", None) = JStr("tools/call")
                THEN Get(p, "name", None) ELSE None
    IN IF name.type = "string" /\ name.s \in ToolNames
       THEN [tool |-> name.s, arguments |-> Get(p, "arguments", JObj(Empty))]
       ELSE [tool |-> "", arguments |-> None]

\* What a line's handling can meet outside the process. A call that never
\* reaches get_connection or urlopen meets nothing; a failing connection is
\* met by one call of each store tool, since no statement is then executed.
Envs(l) ==
    LET c == CalledTool(l)
        complete == c.tool # "" /\ FirstMissing(c.arguments, Subscripted(c.tool)) = NoExc
        first == c.tool = "list_tables"
                 \/ c.arguments \in {Dict([table_name |-> JStr("deposits")]),
                                     Dict([query |-> JStr(SelectAll)])}
    IN [conn : IF complete /\ c.tool \in {"list_tables", "describe_table",
                                          "read_query", "write_query"}
               THEN (IF first THEN ConnRuns ELSE {<<"ok">>})
               ELSE {<<"ok">>},
        http : IF complete /\ c.tool \in {"read_thread", "send_slack_message"}
               THEN HttpOutcomes ELSE {"accepted"},
        thread : {Upstream}]

----------------------------------------------------------------------------
(* main: the transport loop *)

\* json.loads(line): the exception raised, if any
JsonLoadsError(l) ==
    IF l.kind = "garbage"
    THEN Exc("JSONDecodeError", "Expecting value: line 1 column 1 (char 0)")
    ELSE NoExc

\* A send that puts the newest response first
sendFirst(out, response) == <<response>> \o out

\* A send that leaves the response in a buffer
sendUnflushed(out, response) == out

\* send(response): one line written to stdout and flushed
send(out, response) == Append(out, response)

\* Nothing sent, handle_request not entered
Quiet(db) == [sent |-> <<>>, engine |-> 0, db |-> db, fx |-> NoEffects]

\* An except clause that sends nothing
RespondWithoutError(h) ==
    [sent |-> IF h.exc = NoExc /\ h.response # None THEN <<h.response>> ELSE <<>>,
     engine |-> 1, db |-> h.db, fx |-> h.fx]

\* The rest of the try block once handle_request has come to h: send the
\* response if there is one, or write the error to stderr and send the
\* internal-error envelope of the except clause
Respond(h) ==
    [sent |-> IF h.exc # NoExc
              THEN <<ErrorResponse(None, InternalError, "Internal error: " \o h.exc.msg)>>
              ELSE IF h.response # None THEN <<h.response>> ELSE <<>>,
     engine |-> 1, db |-> h.db,
     fx |-> IF h.exc # NoExc THEN [h.fx EXCEPT !.stderr = @ + 1] ELSE h.fx]

\* The body of the while loop for a line readline() returned: what is sent,
\* how often handle_request is entered, and what handling leaves behind
LoopBody(l, db, tok, env) ==
    IF l.kind = "blank" THEN Quiet(db)
    ELSE IF JsonLoadsError(l) # NoExc
         THEN [Quiet(db) EXCEPT !.sent = <<ErrorResponse(None, ParseError,
                                             "Parse error: " \o JsonLoadsError(l).msg)>>]
         ELSE Respond(handle_request(l.value, db, tok, env))

Tokens == {None, JStr(""), JStr("xoxb-1")}

\* No call of get_connection is being followed
Idle == [g |-> [pc |-> "idle"], met |-> <<>>]

\* The side channels when the loop is entered: the starting line on stderr
Started == [stderr |-> 1, debuglog |-> 0]

\* seed_deposits is not running
Unseeded == [pc |-> "idle"]

\* The side channels after n more lines on stderr and m more on the debug log
Diagnosed(n, m) == [stderr |-> side.stderr + n, debuglog |-> side.debuglog + m]

Init ==
    /\ pc = "loop"
    /\ exit = ""
    /\ stdout = <<>>
    /\ origin = <<>>
    /\ nread = 0
    /\ line = NoLine
    /\ emitted = 0
    /\ engine = 0
    /\ effects = NoEffects
    /\ repertoire \in Repertoires
    /\ store \in (IF repertoire = "store" THEN Stores ELSE {[deposits |-> {}]})
    /\ token \in (IF repertoire = "messaging" THEN Tokens ELSE {None})
    /\ gc = Idle
    /\ side = Started
    /\ seed = Unseeded

\* A loop body whose diagnostics are written to stdout
IterationLoggingToStdout(l, b) ==
    /\ stdout' = IF b.sent = <<>> THEN stdout
                 ELSE IF b.fx.stderr > 0
                      THEN send(Append(stdout, [diagnostic |-> "[MCP]"]), b.sent[1])
                      ELSE send(stdout, b.sent[1])
    /\ origin' = IF b.sent = <<>> THEN origin ELSE Append(origin, nread + 1)
    /\ emitted' = Len(b.sent)
    /\ engine' = b.engine
    /\ effects' = b.fx
    /\ store' = b.db
    /\ nread' = nread + 1
    /\ line' = l
    /\ side' = Diagnosed(0, b.fx.debuglog)
    /\ UNCHANGED <<pc, exit, token, gc, repertoire, seed>>

\* A loop body that turns away tools/list and tools/call until an initialize
\* has been answered
IterationAfterInitialize(l, b) ==
    LET initialized == \E i \in 1..Len(stdout) :
                          /\ "result" \in DOMAIN stdout[i]
                          /\ "protocolVersion" \in DOMAIN stdout[i].result
        gated == /\ l.kind = "json"
                 /\ IsDict(l.value)
                 /\ Get(l.value, "method", None) \in {JStr("tools/list"), JStr("tools/call")}
        turned == ~initialized /\ gated /\ b.sent # <<>>
    IN /\ stdout' = IF b.sent = <<>> THEN stdout
                    ELSE IF turned
                         THEN send(stdout, ErrorResponse(Get(l.value, "id", None), -32002,
                                                         "Server not initialized"))
                         ELSE send(stdout, b.sent[1])
       /\ origin' = IF b.sent = <<>> THEN origin ELSE Append(origin, nread + 1)
       /\ emitted' = Len(b.sent)
       /\ engine' = b.engine
       /\ effects' = IF turned THEN NoEffects ELSE b.fx
       /\ store' = IF turned THEN store ELSE b.db
       /\ nread' = nread + 1
       /\ line' = l
       /\ side' = Diagnosed(b.fx.stderr, b.fx.debuglog)
       /\ UNCHANGED <<pc, exit, token, gc, repertoire, seed>>

\* The loop body's effect on the state, b being what it came to for line l
Iteration(l, b) ==
    /\ stdout' = IF b.sent = <<>> THEN stdout ELSE send(stdout, b.sent[1])
    /\ origin' = IF b.sent = <<>> THEN origin ELSE Append(origin, nread + 1)
    /\ emitted' = Len(b.sent)
    /\ engine' = b.engine
    /\ effects' = b.fx
    /\ store' = b.db
    /\ nread' = nread + 1
    /\ line' = l
    /\ side' = Diagnosed(b.fx.stderr, b.fx.debuglog)
    /\ UNCHANGED <<pc, exit, token, gc, repertoire, seed>>

\* readline() returns a line; the loop body handles it
ReadLine(l, env) ==
    /\ pc = "loop"
    /\ nread < MaxLines
    /\ Iteration(l, LoopBody(l, store, token, env))

\* readline() raises UnicodeDecodeError: caught by the outer except, which
\* writes the fatal error to stderr; the finally clause writes the shutdown line
ReadUndecodable ==
    /\ pc = "loop"
    /\ nread < MaxLines
    /\ pc' = "stopped"
    /\ exit' = "fatal"
    /\ line' = Undecodable
    /\ emitted' = 0
    /\ engine' = 0
    /\ effects' = NoEffects
    /\ side' = Diagnosed(2, 0)
    /\ UNCHANGED <<stdout, origin, nread, store, token, gc, repertoire, seed>>

\* readline() returns "": end of input; the finally clause writes the shutdown line
ReadEOF ==
    /\ pc = "loop"
    /\ pc' = "stopped"
    /\ exit' = "eof"
    /\ side' = Diagnosed(1, 0)
    /\ UNCHANGED <<stdout, origin, nread, line, emitted, engine, effects, store, token, gc,
                   repertoire, seed>>

Next ==
    \/ \E l \in Lines(repertoire, nread + 1) : \E env \in Envs(l) : ReadLine(l, env)
    \/ ReadUndecodable
    \/ ReadEOF

Spec == Init /\ [][Next]_vars

----------------------------------------------------------------------------
(* get_connection alone, one attempt at a time, for any retries and delay *)

MaxRetries == 4
Delays == {DelayMs, 200}

InitConn ==
    /\ pc = "get_connection"
    /\ exit = ""
    /\ stdout = <<>>
    /\ origin = <<>>
    /\ nread = 0
    /\ line = NoLine
    /\ emitted = 0
    /\ engine = 0
    /\ effects = NoEffects
    /\ store = [deposits |-> {}]
    /\ token = None
    /\ repertoire = "store"
    /\ gc \in {[g |-> GcEnter(r, d), met |-> <<>>] : r \in 0..MaxRetries, d \in Delays}
    /\ side = Started
    /\ seed = Unseeded

\* One iteration of the for loop; gc.met records what each attempt met
Attempt(outcome) ==
    /\ pc = "get_connection"
    /\ gc.g.pc = "try"
    /\ gc' = [g |-> GcAttempt(gc.g, outcome), met |-> Append(gc.met, outcome)]
    /\ UNCHANGED <<pc, exit, stdout, origin, nread, line, emitted, engine, effects, store,
                   token, repertoire, side, seed>>

\* The handles get_connection holds by its own account: the one it returned
Held == IF gc.g.pc = "returned" THEN 1 ELSE 0

\* The interpreter finalizes a connection object that nothing refers to any
\* more, which closes its handle; when it does so is not the program's choice
Collect ==
    /\ pc = "get_connection"
    /\ gc.g.unclosed > Held
    /\ gc' = [gc EXCEPT !.g.unclosed = @ - 1]
    /\ UNCHANGED <<pc, exit, stdout, origin, nread, line, emitted, engine, effects, store,
                   token, repertoire, side, seed>>

NextConn ==
    \/ \E outcome \in AttemptOutcomes : Attempt(outcome)
    \/ Collect

SpecConn == InitConn /\ [][NextConn]_vars

----------------------------------------------------------------------------
(* Properties.  `line` is the input line handled last, `emitted` the       *)
(* number of responses sent for it; when emitted = 1 that response is the  *)
(* last line of stdout.                                                    *)

IsRequest == line.kind = "json" /\ IsDict(line.value)
HasId == "id" \in DOMAIN line.value.members
Method == Get(line.value, "method", None)
RequestId == Get(line.value, "id", None)
Answer == stdout[Len(stdout)]
Answered == emitted = 1 /\ Len(stdout) > 0 /\ origin[Len(origin)] = nread
IsError(r, code) ==
    /\ DOMAIN r = {"jsonrpc", "id", "error"}
    /\ r.error.code = code
KnownMethods ==
    {JStr("initialize"), JStr("notifications/initialized"), JStr("tools/list"),
     JStr("tools/call")}

\* C1: a request that carries an id, whatever its method, is answered with
\* exactly one response, and that response echoes the id.
C1_OneResponsePerId ==
    (IsRequest /\ HasId) => (Answered /\ Answer.id = RequestId)

\* C2: a request that carries no id, whatever its method, is answered with
\* no response.
C2_NotificationsUnanswered ==
    (IsRequest /\ ~HasId) => emitted = 0

\* C3: a non-empty line that is not JSON is answered with exactly one error
\* response, code -32700 and id null, without handle_request being entered,
\* and the loop goes on.
C3_MalformedLineAnswered ==
    (line.kind \in {"garbage", "undecodable"}) =>
        /\ Answered
        /\ IsError(Answer, ParseError)
        /\ Answer.id = None
        /\ engine = 0
        /\ exit # "fatal"

\* C4: responses appear on stdout in the order in which the lines they answer
\* were read; a response to the n-th line that echoes its id n stands where
\* the n-th line's response belongs.
C4_ResponsesInInputOrder ==
    /\ Len(origin) = Len(stdout)
    /\ \A i, j \in 1..Len(stdout) : i < j => origin[i] < origin[j]
    /\ \A i \in 1..Len(stdout) : stdout[i].id.type = "number" => stdout[i].id.n = origin[i]

C4_Witness ==
    /\ Len(stdout) = 2
    /\ stdout[1].id = JNum(1)
    /\ stdout[2].id = JNum(2)

\* C5: the loop stops only at end of input.
C5_StopsOnlyAtEndOfInput ==
    pc = "stopped" => exit = "eof"

\* C6: every response written holds exactly one of result and error, and an
\* error holds an integer code and a string message.
C6_ResultXorError ==
    \A i \in 1..Len(stdout) :
        /\ ("result" \in DOMAIN stdout[i]) # ("error" \in DOMAIN stdout[i])
        /\ "error" \in DOMAIN stdout[i] =>
              /\ DOMAIN stdout[i].error = {"code", "message"}
              /\ stdout[i].error.code \in Int
              /\ stdout[i].error.message \in STRING

C6_Witness ==
    /\ Len(stdout) = 2
    /\ "result" \in DOMAIN stdout[1]
    /\ "error" \in DOMAIN stdout[2]

\* The tool name of a tools/call line is not in the catalogue: the name is
\* missing or names no tool
IsToolsCall == IsRequest /\ Method = JStr("tools/call")
Params == Get(line.value, "params", JObj(Empty))
NamesNoTool ==
    /\ IsToolsCall
    /\ IsDict(Params) =>
          LET n == Get(Params, "name", None)
          IN ~(n.type = "string" /\ n.s \in ToolNames)
Untouched ==
    /\ effects.handler = ""
    /\ effects.connects = 0
    /\ effects.statements = 0
    /\ effects.outbound = 0

\* C7 as claimed: every tools/call that names no catalogued tool, a call that
\* gives no name included, is answered with -32601 and nothing is run.
C7_UnknownToolNotFound ==
    NamesNoTool => (Answered /\ IsError(Answer, NotFound) /\ Untouched)

\* C7 amended: a tools/call whose params are a mapping or left out, and whose
\* name is missing or names no catalogued tool, is answered with -32601,
\* never -32000, and no handler runs, no connection is opened and no
\* outbound call is made.
C7_UnknownToolNotFoundAmended ==
    (NamesNoTool /\ IsDict(Params)) =>
        /\ Answered
        /\ IsError(Answer, NotFound)
        /\ Answer.id = RequestId
        /\ Untouched

C7_Witness ==
    /\ NamesNoTool /\ IsDict(Params)
    /\ "name" \in DOMAIN Params.members
    /\ Answered
    /\ Answer.error.message = "Unknown tool: drop_table"

\* C8: a request whose method is none of the four known ones is answered
\* with one -32601 error carrying the request's id, and the loop goes on.
C8_UnknownMethodNotFound ==
    (IsRequest /\ Method \notin KnownMethods) =>
        /\ Answered
        /\ IsError(Answer, NotFound)
        /\ Answer.id = RequestId
        /\ exit # "fatal"
        /\ exit = "" => pc = "loop"

C8_Witness ==
    /\ IsRequest /\ Method = JStr("resources/list") /\ HasId
    /\ Answered
    /\ nread = 2 /\ Len(stdout) = 2
    /\ pc = "loop"

\* C9: when a tool handler raises, one -32000 error is sent that carries the
\* request's id and, as its message, the message of the error raised; the
\* loop goes on.
C9_HandlerErrorEnveloped ==
    (IsToolsCall /\ effects.handler # "" /\ effects.raised # NoExc) =>
        /\ Answered
        /\ Answer = ErrorResponse(RequestId, InternalError, effects.raised.msg)
        /\ exit # "fatal"
        /\ exit = "" => pc = "loop"

C9_Witness ==
    /\ IsToolsCall /\ effects.handler = "write_query"
    /\ effects.raised.msg = "UNIQUE constraint failed: deposits.id"
    /\ Answered
    /\ pc = "loop"

LastMet == gc.met[Len(gc.met)]
Failed(k) == gc.met[k] # "ok"

\* C10: get_connection ends after at most `retries` attempts: while it runs
\* fewer than `retries` attempts were made and all failed; it returns at the
\* first attempt that succeeds; it raises only after `retries` failed
\* attempts, with the cause of the last one in its message.
C10_GetConnectionBounded ==
    /\ gc.g.tried = Len(gc.met)
    /\ gc.g.tried <= gc.g.retries
    /\ gc.g.pc = "try" => (gc.g.tried < gc.g.retries /\ \A k \in 1..Len(gc.met) : Failed(k))
    /\ gc.g.pc = "returned" =>
          /\ LastMet = "ok"
          /\ \A k \in 1..(Len(gc.met) - 1) : Failed(k)
    /\ gc.g.pc = "raised" =>
          /\ gc.g.tried = gc.g.retries
          /\ \A k \in 1..Len(gc.met) : Failed(k)
          /\ gc.g.retries > 0 =>
                gc.g.error.msg = "Failed to connect after " \o ToString(gc.g.retries)
                                 \o " attempts: " \o AttemptError(LastMet).msg

C10_Witness ==
    /\ gc.g.pc = "raised"
    /\ gc.g.retries = Retries
    /\ gc.met = <<"locked", "locked", "cantopen">>

----------------------------------------------------------------------------
(* The store tools *)

StoreHandlers == {"list_tables", "describe_table", "read_query", "write_query"}
IsResult(r) == DOMAIN r = {"jsonrpc", "id", "result"}
\* The content text of a tools/call result ("" for any other response)
Text(r) ==
    IF IsResult(r) /\ "content" \in DOMAIN r.result THEN r.result.content[1].text ELSE ""
Arguments == Get(Params, "arguments", JObj(Empty))
\* The handler named h was entered for the line handled last
Ran(h) == IsToolsCall /\ effects.handler = h
\* ... and cursor.execute was reached with this text
Executed(h, text) ==
    /\ Ran(h)
    /\ effects.statements = 1
    /\ Arguments.members.query = JStr(text)

\* C11: whenever a store handler that acquired a connection is left, by
\* return or by an error, that connection has been closed.
C11_ConnectionClosedOnEveryExit ==
    (effects.handler \in StoreHandlers /\ effects.acquired = 1) => effects.closed = 1

\* C12: a write_query whose statement fails rolls back: the committed store
\* is what it was before the call, nothing is committed, and the call is
\* answered with an error response.
C12_FailedWriteRolledBack ==
    [][(effects'.handler = "write_query" /\ effects'.statements = 1
            /\ effects'.raised # NoExc /\ nread' = nread + 1)
        => /\ store' = store
           /\ effects'.rollbacks = 1
           /\ effects'.commits = 0
           /\ emitted' = 1
           /\ IsError(stdout'[Len(stdout')], InternalError)]_vars

\* C13: every statement write_query executes successfully reports a number
\* of affected rows that is at least 0.
C13_AffectedRowsNonNegative ==
    (Ran("write_query") /\ effects.statements = 1 /\ effects.raised = NoExc) =>
        effects.returned.affected_rows >= 0

\* C14: a read_query whose valid statement matches no row returns the
\* statement's column names with an empty row list, and is answered with a
\* result envelope.
C14_EmptyReadIsResult ==
    (\/ Executed("read_query", SelectNone)
     \/ Executed("read_query", SelectAll) /\ store.deposits = {}) =>
        /\ effects.returned = [columns |-> <<"id">>, rows |-> <<>>]
        /\ Answered
        /\ IsResult(Answer)
        /\ Answer.id = RequestId

C14_Witness ==
    /\ Executed("read_query", SelectNone)
    /\ store.deposits # {}
    /\ Answered
    /\ Text(Answer) = "Query returned no results."

----------------------------------------------------------------------------
(* The catalogue *)

IsToolsList == IsRequest /\ Method = JStr("tools/list")
IsCatalogue(r) == "result" \in DOMAIN r /\ "tools" \in DOMAIN r.result
Names(tools) == [i \in 1..Len(tools) |-> tools[i].name]

\* C17 as claimed: tools/list answers with six descriptors named list_tables,
\* describe_table, read_query, write_query, read_thread and send_message.
C17_CatalogueAsClaimed ==
    IsToolsList =>
        /\ Answered
        /\ IsCatalogue(Answer)
        /\ Names(Answer.result.tools) =
              <<"list_tables", "describe_table", "read_query", "write_query", "read_thread",
                "send_message">>

\* C17 amended: tools/list answers with six descriptors with pairwise
\* distinct names, list_tables, describe_table, read_query, write_query,
\* read_thread and send_slack_message in this order, and every tools/list of
\* the session was answered with the same descriptors.
C17_CatalogueFixed ==
    IsToolsList =>
        /\ Answered
        /\ IsCatalogue(Answer)
        /\ Len(Answer.result.tools) = 6
        /\ \A i, j \in 1..6 :
              i # j => Answer.result.tools[i].name # Answer.result.tools[j].name
        /\ Names(Answer.result.tools) =
              <<"list_tables", "describe_table", "read_query", "write_query", "read_thread",
                "send_slack_message">>
        /\ \A i \in 1..Len(stdout) :
              IsCatalogue(stdout[i]) => stdout[i].result.tools = Answer.result.tools

C17_Witness ==
    /\ IsToolsList
    /\ nread = 2
    /\ Len(stdout) = 2
    /\ IsCatalogue(stdout[1])
    /\ IsCatalogue(stdout[2])

----------------------------------------------------------------------------
(* The messaging tools *)

MessagingHandlers == {"read_thread", "send_slack_message"}

C19_MessagingNeverRaises ==
    (IsToolsCall /\ effects.handler \in MessagingHandlers) =>
        /\ effects.raised = NoExc
        /\ Answered
        /\ IsResult(Answer)

----------------------------------------------------------------------------
(* read_query on a table of up to MaxRows rows: the first call of a session *)

MaxRows == 102

\* What a call meets when the database opens at once and the platform accepts
Fair == [conn |-> <<"ok">>, http |-> "accepted", thread |-> Upstream]

InitRows ==
    /\ pc = "loop"
    /\ exit = ""
    /\ stdout = <<>>
    /\ origin = <<>>
    /\ nread = 0
    /\ line = NoLine
    /\ emitted = 0
    /\ engine = 0
    /\ effects = NoEffects
    /\ repertoire = "rows"
    /\ store \in {[deposits |-> 1..n] : n \in 0..MaxRows}
    /\ token = None
    /\ gc = Idle
    /\ side = Started
    /\ seed = Unseeded

CallReadQuery(query) ==
    /\ nread = 0
    /\ ReadLine(Call(JNum(1), JStr("read_query"), Dict([query |-> JStr(query)])), Fair)

NextRows ==
    \/ \E query \in {SelectAll, SelectNone} : CallReadQuery(query)
    \/ ReadEOF

SpecRows == InitRows /\ [][NextRows]_vars

\* C15: for a read_query result of N >= 1 rows the handler's result holds all
\* N rows, and the response text reports N, lists the first min(N, 100) rows
\* in result order, and ends with the count N - 100 of omitted rows exactly
\* when N > 100.
C15_RowsShownAndCounted ==
    (Executed("read_query", SelectAll) /\ store.deposits # {}) =>
        LET n == Cardinality(store.deposits)
            rows == effects.returned.rows
            shown == IF n <= 100 THEN n ELSE 100
        IN /\ Len(rows) = n
           /\ \A i \in 1..n : rows[i] = <<i>>
           /\ Answered
           /\ Text(Answer) =
                 "Columns: id\n\nResults (" \o ToString(n) \o " rows):\n"
                 \o Join([i \in 1..shown |-> "(" \o ToString(i) \o ",)\n"], "")
                 \o (IF n > 100 THEN "\n... and " \o ToString(n - 100) \o " more rows" ELSE "")

C15_Witness ==
    /\ Executed("read_query", SelectAll)
    /\ Cardinality(store.deposits) = 101
    /\ Len(effects.returned.rows) = 101
    /\ Answered
    /\ IsResult(Answer)

----------------------------------------------------------------------------
(* read_thread on a thread of up to MaxMsgs messages: the first call of a  *)
(* session                                                                 *)

MaxMsgs == 2

\* Upstream messages: text that begins with a status marker, with a glyph
\* that is a marker only when " Complete" follows, or with none; with or
\* without a bot_id
Messages == [glyph : {"", "magnifier", "check Complete", "check"}, text : {"ok"}, bot : BOOLEAN]
Threads == UNION {[1..n -> Messages] : n \in 0..MaxMsgs}

InitThread ==
    /\ pc = "loop"
    /\ exit = ""
    /\ stdout = <<>>
    /\ origin = <<>>
    /\ nread = 0
    /\ line = NoLine
    /\ emitted = 0
    /\ engine = 0
    /\ effects = NoEffects
    /\ repertoire = "thread"
    /\ store = [deposits |-> {}]
    /\ token = JStr("xoxb-1")
    /\ gc = Idle
    /\ side = Started
    /\ seed = Unseeded

CallReadThread(thread, http) ==
    /\ nread = 0
    /\ ReadLine(Call(JNum(1), JStr("read_thread"),
                     Dict([channel |-> JStr("C1"), thread_ts |-> JStr("17.1")])),
                [conn |-> <<"ok">>, http |-> http, thread |-> thread])

NextThread ==
    \/ \E thread \in Threads, http \in {"accepted", "rejected"} : CallReadThread(thread, http)
    \/ ReadEOF

SpecThread == InitThread /\ [][NextThread]_vars

\* The text of an upstream message begins with a status marker
Marker(msg) == msg.glyph \in {"magnifier", "wrench", "brain", "cycle", "check Complete"}

\* C20: when the platform accepts a read_thread call, the messages returned
\* are the upstream messages whose text begins with no status marker, in
\* upstream order, each with role assistant if the upstream message carries
\* a bot id and role user otherwise.
C20_ThreadFilteredAndClassified ==
    (Ran("read_thread") /\ effects.raised = NoExc /\ effects.returned.success) =>
        LET up == effects.upstream
            out == effects.returned.messages
            kept == {i \in 1..Len(up) : ~Marker(up[i])}
            nth(j) == CHOOSE i \in kept : Cardinality({k \in kept : k <= i}) = j
        IN /\ Len(out) = Cardinality(kept)
           /\ \A j \in 1..Len(out) :
                 /\ out[j].text = up[nth(j)].glyph \o up[nth(j)].text
                 /\ out[j].role = (IF up[nth(j)].bot THEN "assistant" ELSE "user")

C20_Witness ==
    /\ Ran("read_thread")
    /\ effects.upstream = <<[glyph |-> "check Complete", text |-> "ok", bot |-> TRUE],
                            [glyph |-> "check", text |-> "ok", bot |-> TRUE]>>
    /\ effects.returned.messages = <<[role |-> "assistant", text |-> "checkok"]>>
    /\ Answered
    /\ IsResult(Answer)

----------------------------------------------------------------------------
(* seed_deposits (src/database/seed_data.py), one loop step at a time.     *)
(* Dates are counted in days from start_date, so end_date is HistoryDays.  *)

HistoryDays == 90
MaxLocations == 2

InitSeed ==
    /\ pc = "seed_deposits"
    /\ exit = ""
    /\ stdout = <<>>
    /\ origin = <<>>
    /\ nread = 0
    /\ line = NoLine
    /\ emitted = 0
    /\ engine = 0
    /\ effects = NoEffects
    /\ repertoire = "store"
    /\ store = [deposits |-> {}]
    /\ token = None
    /\ gc = Idle
    /\ side = Started
    /\ seed \in {[pc |-> "for", locations |-> n, location |-> 0, current_date |-> 0,
                  deposits |-> 0] : n \in 0..MaxLocations}

SeedStep(next) ==
    /\ pc = "seed_deposits"
    /\ seed' = next
    /\ UNCHANGED <<pc, exit, stdout, origin, nread, line, emitted, engine, effects, store,
                   token, gc, repertoire, side>>

\* for store_code, location in locations.items(): current_date = start_date
NextLocation ==
    /\ seed.pc = "for"
    /\ seed.location < seed.locations
    /\ SeedStep([seed EXCEPT !.pc = "while", !.location = @ + 1, !.current_date = 0])

\* while current_date <= end_date: session.add(deposit); current_date += 1 day
AddDeposit ==
    /\ seed.pc = "while"
    /\ seed.current_date <= HistoryDays
    /\ SeedStep([seed EXCEPT !.deposits = @ + 1, !.current_date = @ + 1])

\* the while condition fails
EndOfHistory ==
    /\ seed.pc = "while"
    /\ seed.current_date > HistoryDays
    /\ SeedStep([seed EXCEPT !.pc = "for"])

\* session.flush() after the last location
Flush ==
    /\ seed.pc = "for"
    /\ seed.location = seed.locations
    /\ SeedStep([seed EXCEPT !.pc = "flushed"])

NextSeed == NextLocation \/ AddDeposit \/ EndOfHistory \/ Flush

SpecSeed == InitSeed /\ [][NextSeed]_vars

\* C23: a freshly seeded store holds exactly 90 deposits per location, 90 * N
\* for N locations.
C23_NinetyDepositsPerLocation ==
    seed.pc = "flushed" => seed.deposits = 90 * seed.locations

----------------------------------------------------------------------------
(* The transport loop, continued *)

\* C21: the response to a line is on stdout before the next line is read:
\* handling a line adds exactly the responses sent for it, at most one, after
\* everything written before, and every response on stdout answers a line
\* already read, so nothing is held back while the loop waits.
C21_OneRequestAtATime ==
    [][nread' = nread + 1 =>
          /\ emitted' \in {0, 1}
          /\ Len(stdout') = Len(stdout) + emitted'
          /\ SubSeq(stdout', 1, Len(stdout)) = stdout
          /\ Len(origin') = Len(stdout')
          /\ emitted' = 1 => origin'[Len(origin')] = nread'
          /\ \A i \in 1..Len(origin) : origin[i] <= nread]_vars

C21_Witness ==
    /\ nread = 2
    /\ origin = <<1, 2>>
    /\ Len(stdout) = 2
    /\ effects.handler = "write_query"
    /\ pc = "loop"

IsEnvelope(r) ==
    \/ IsResult(r)
    \/ /\ DOMAIN r = {"jsonrpc", "id", "error"}
       /\ DOMAIN r.error = {"code", "message"}

\* C22: every line on stdout is one complete response envelope and there are
\* as many lines as responses sent; diagnostics are on the side channels.
C22_OnlyResponsesOnStdout ==
    /\ Len(stdout) = Len(origin)
    /\ \A i \in 1..Len(stdout) : IsEnvelope(stdout[i]) /\ stdout[i].jsonrpc = "2.0"
    /\ side.stderr >= 1

C22_Witness ==
    /\ exit = "eof"
    /\ Len(stdout) = 2
    /\ side.stderr = 5
    /\ side.debuglog = 4

C30_NoHandleLeftOpen ==
    gc.g.pc \in {"try", "returned", "raised"} => gc.g.unclosed = Held

----------------------------------------------------------------------------
(* The engine, continued *)

\* An initialize has been answered in this session
Initialized ==
    \E i \in 1..Len(stdout) :
        "result" \in DOMAIN stdout[i] /\ "protocolVersion" \in DOMAIN stdout[i].result

\* C25: the engine keeps no session state: handling initialize or
\* notifications/initialized changes nothing, what a line is answered with
\* and what it leaves in the store depend only on the line, the store, the
\* credential and what the call meets outside, and tools/list and tools/call
\* are answered when no initialize was handled before.
C25_NoSessionState ==
    /\ [][nread' = nread + 1 =>
            /\ (/\ line'.kind = "json"
                /\ IsDict(line'.value)
                /\ Get(line'.value, "method", None)
                      \in {JStr("initialize"), JStr("notifications/initialized")})
                  => (store' = store /\ token' = token /\ effects' = NoEffects)
            /\ \E env \in Envs(line') :
                  /\ stdout' = stdout \o LoopBody(line', store, token, env).sent
                  /\ store' = LoopBody(line', store, token, env).db]_vars
    /\ []((IsToolsList /\ ~Initialized) => (Answered /\ IsCatalogue(Answer)))
    /\ []((IsToolsCall /\ ~Initialized) => (Answered /\ Answer.jsonrpc = "2.0"))

C25_Witness ==
    /\ nread = 2
    /\ Len(stdout) = 2
    /\ ~Initialized
    /\ Ran("list_tables")
    /\ IsResult(Answer)
    /\ Text(Answer) = "Tables in database:\n- deposits"

\* The name a tools/call line gives, when its params are a mapping
CalledName == Get(Params, "name", None)

\* C26: the names tools/list advertises are the names tools/call dispatches:
\* after a tools/list, a tools/call is answered with the unknown-tool error
\* exactly when its name is not among the names that were advertised.
C26_AdvertisedIsDispatched ==
    \A i \in 1..Len(stdout) :
        (IsCatalogue(stdout[i]) /\ IsToolsCall /\ IsDict(Params) /\ CalledName.type = "string") =>
            /\ Answered
            /\ IsError(Answer, -32601)
                  <=> CalledName.s \notin {stdout[i].result.tools[j].name :
                                              j \in 1..Len(stdout[i].result.tools)}

C26_Witness ==
    /\ nread = 2
    /\ Len(stdout) = 2
    /\ IsCatalogue(stdout[1])
    /\ Ran("send_slack_message")
    /\ IsResult(Answer)

\* C27: a line that is valid JSON but no object is answered with one error
\* response, code -32000 and id null, no handler is run, and the loop goes on.
C27_NonObjectAnswered ==
    (line.kind = "json" /\ ~IsDict(line.value)) =>
        /\ Answered
        /\ IsError(Answer, -32000)
        /\ Answer.id = None
        /\ effects.handler = ""
        /\ Untouched
        /\ exit # "fatal"
        /\ exit = "" => pc = "loop"

C27_Witness ==
    /\ line = JsonLine(None)
    /\ nread = 2
    /\ Len(stdout) = 2
    /\ Answer.error.message = "Internal error: 'NoneType' object has no attribute 'get'"
    /\ pc = "loop"

\* A tools/call of a tool that takes arguments, whose arguments are a mapping
\* that lacks one the tool requires
LacksRequired ==
    LET required == [describe_table |-> {"table_name"}, read_query |-> {"query"},
                     write_query |-> {"query"}, read_thread |-> {"channel", "thread_ts"},
                     send_slack_message |-> {"channel", "message"}]
    IN /\ IsToolsCall
       /\ IsDict(Params)
       /\ CalledName.type = "string"
       /\ CalledName.s \in DOMAIN required
       /\ IsDict(Arguments)
       /\ \E k \in required[CalledName.s] : k \notin DOMAIN Arguments.members

\* C28: a tools/call that lacks a required argument is answered with one
\* error response, code -32000 and the request's id, and nothing was done:
\* no connection opened, no statement executed, no outbound call.
C28_MissingArgumentNoEffect ==
    LacksRequired =>
        /\ Answered
        /\ IsError(Answer, -32000)
        /\ Answer.id = RequestId
        /\ effects.connects = 0
        /\ effects.opened = 0
        /\ effects.statements = 0
        /\ effects.outbound = 0

C28_Witness ==
    /\ LacksRequired
    /\ CalledName.s = "read_thread"
    /\ "channel" \in DOMAIN Arguments.members
    /\ Answered
    /\ Answer.error.message = "'thread_ts'"

\* C29: read_query never commits: it closes without a commit, and the
\* committed store after the call is the one before it, whatever the
\* statement.
C29_ReadQueryNeverCommits ==
    [][(nread' = nread + 1 /\ effects'.handler = "read_query") =>
          /\ effects'.commits = 0
          /\ effects'.acquired = 1 => effects'.closed = 1
          /\ store' = store]_vars

====
